---------------------------- MODULE Spec2Model ----------------------------
(***************************************************************************)
(* A model of the webcrawler's frontier scheduler (Crawler::run) together  *)
(* with the fetch tasks it spawns (Scraper::visit) and the bounded mpsc     *)
(* channel through which the tasks report discovered URLs.                  *)
(*                                                                         *)
(* The scheduler is one control flow: Crawler::new, Storage::setup, the     *)
(* start-up lines 64-73 of run, and then one action per arm of the          *)
(* tokio::select! loop.  Each spawned task is a small state machine: GET    *)
(* the page, serialize it, send its links one by one, return.               *)
(***************************************************************************)
EXTENDS Integers, Sequences, FiniteSets, TLC

(***************************************************************************)
(* Bounds of the model.                                                    *)
(***************************************************************************)
\* Capacity of the discovery channel (2^16 in the program, small here).
InboxCap == 3
\* max_tasks ranges over 0..MaxTasksBound.
MaxTasksBound == 3
\* max_pages ranges over 1..MaxPagesBound.
MaxPagesBound == 4
\* Width of usize in bits (64 in the program, small here).
UsizeBits == 4

UsizeMod == 2 ^ UsizeBits

(***************************************************************************)
(* The web sites crawled.  A site maps each URL to the sequence of         *)
(* absolute links that Scraper::scrape finds in its page, in markup order. *)
(* URL 1 is the root.                                                      *)
(***************************************************************************)
RootUrl == 1

URLs == 1 .. 4

\* A single page without links.
SiteSingle == << <<>>, <<>>, <<>>, <<>> >>

\* A links to B and B links to A.
SiteCycle == << <<2>>, <<1>>, <<>>, <<>> >>

\* Cycle-free; pages 2 and 3 both discover page 4.
SiteDiamond == << <<2, 3>>, <<4>>, <<4>>, <<>> >>

\* Cycle-free; each page links to the next.
SiteChain == << <<2>>, <<3>>, <<4>>, <<>> >>

\* Cycle-free; the root links to three distinct pages.
SiteWide == << <<2, 3, 4>>, <<>>, <<>>, <<>> >>

\* The root carries more links than the channel has capacity, three of them
\* distinct.
SiteFan == << [j \in 1 .. (InboxCap + 1) |-> 2 + ((j - 1) % 3)], <<>>, <<>>, <<>> >>

\* Cycles, a link back to the root, a self link and a repeated link.
SiteTangle == << <<2, 3>>, <<3, 1>>, <<3, 2, 2>>, <<>> >>

\* The sequences of at most n links to pages 1, 2, 3.
LinkSeqs(n) == UNION {[1 .. m -> 1 .. 3] : m \in 0 .. n}

\* Every site of three pages whose root has at most two links and whose
\* other pages have at most one.
SmallSites == {<<a, b, c, <<>> >> : a \in LinkSeqs(2), b \in LinkSeqs(1), c \in LinkSeqs(1)}

Sites == {SiteSingle, SiteCycle, SiteDiamond, SiteChain, SiteWide, SiteFan, SiteTangle}
             \cup SmallSites

VARIABLES
    pc,                \* position of the scheduler's control flow
    site,              \* the site being crawled (input, fixed)
    max_tasks,         \* argument of run (input, fixed)
    max_pages,         \* argument of run (input, fixed)
    visited,           \* Crawler.visited
    task_queue,        \* Crawler.task_queue, in push order
    inbox,             \* messages buffered in the mpsc channel
    n_tasks_remaining, \* local of run
    n_pages_queued,    \* local of run
    n_pages_visited,   \* local of run
    spawned,           \* history: URLs passed to queue_task, in call order
    results,           \* history: task results consumed by the scheduler
    via,               \* history: for each queue_task call, the message behind it
    error              \* the Err returned by new or run, "none" so far

vars == << pc, site, max_tasks, max_pages, visited, task_queue, inbox,
           n_tasks_remaining, n_pages_queued, n_pages_visited, spawned, results,
           via, error >>

\* Scraper::scrape applied to the body of url.
Links(url) == site[url]

\* The future created by queue_task: visit(url, tx, storage), not yet polled.
NewTask(url) == [url |-> url, st |-> "get", i |-> 1]

\* A task whose future has resolved (its JoinHandle is ready).
Finished(t) == t.st \in {"ok", "reqwest", "io", "join"}

\* usize arithmetic without overflow checks.
WrapSub(a, b) == (a - b) % UsizeMod

WrapAdd(a, b) == (a + b) % UsizeMod

Init ==
    /\ pc = "new"
    /\ site \in Sites
    /\ max_tasks \in 0 .. MaxTasksBound
    /\ max_pages \in 1 .. MaxPagesBound
    /\ visited = {}
    /\ task_queue = <<>>
    /\ inbox = <<>>
    /\ n_tasks_remaining = 0
    /\ n_pages_queued = 0
    /\ n_pages_visited = 0
    /\ spawned = <<>>
    /\ results = <<>>
    /\ via = <<>>
    /\ error = "none"

(***************************************************************************)
(* The scheduler.                                                          *)
(***************************************************************************)
\* Crawler::new: the root URL parses and has a host, or new returns Err.
New ==
    /\ pc = "new"
    /\ \/ pc' = "setup" /\ UNCHANGED error
       \/ pc' = "error" /\ error' \in {"UrlParse", "NoUrlHost"}
    /\ UNCHANGED << site, max_tasks, max_pages, visited, task_queue, inbox,
                    n_tasks_remaining, n_pages_queued, n_pages_visited,
                    spawned, results, via >>

\* self.storage.setup().await? : the directory is created, or run returns Err.
Setup ==
    /\ pc = "setup"
    /\ \/ pc' = "start" /\ UNCHANGED error
       \/ pc' = "error" /\ error' = "Io"
    /\ UNCHANGED << site, max_tasks, max_pages, visited, task_queue, inbox,
                    n_tasks_remaining, n_pages_queued, n_pages_visited,
                    spawned, results, via >>

\* queue_task: push the spawned task at the back of task_queue.
QueueTask(url) ==
    /\ task_queue' = Append(task_queue, NewTask(url))
    /\ spawned' = Append(spawned, url)

\* Lines 64-73.  The root task is spawned and the root marked visited before
\* max_tasks - 1 is computed; with max_tasks = 0 the subtraction panics
\* where overflow checks are compiled in and wraps where they are not.
Start ==
    /\ pc = "start"
    /\ QueueTask(RootUrl)
    /\ visited' = visited \cup {RootUrl}
    /\ \/ /\ max_tasks >= 1
          /\ pc' = "loop"
          /\ n_tasks_remaining' = max_tasks - 1
          /\ n_pages_queued' = 1
       \/ /\ max_tasks = 0
          /\ pc' = "loop"
          /\ n_tasks_remaining' = WrapSub(max_tasks, 1)
          /\ n_pages_queued' = 1
       \/ /\ max_tasks = 0
          /\ pc' = "panicked"
          /\ UNCHANGED << n_tasks_remaining, n_pages_queued >>
    /\ n_pages_visited' = 0
    /\ via' = Append(via, [src |-> 0, j |-> 0, tie |-> FALSE])
    /\ UNCHANGED << site, max_tasks, max_pages, inbox, results, error >>

\* Variant of AdmissionGuard that forgets the page ceiling.
GuardNoPageCeiling == n_tasks_remaining > 0

\* Variant of AdmissionGuard that forgets the concurrency budget.
GuardNoSlotCheck == n_pages_queued < max_pages

\* The precondition of the select! arm that receives discoveries (line 89).
AdmissionGuard == n_tasks_remaining > 0 /\ n_pages_queued < max_pages

\* Variant of NotVisited that admits whatever is received.
NotVisitedAlwaysTrue(url) == TRUE

\* Line 90: the dedup check.
NotVisited(url) == url \notin visited

\* Variant of Complete in which a failed task makes run return its error.
CompleteAbortsOnFailure ==
    /\ pc = "loop"
    /\ task_queue # <<>>
    /\ Finished(Head(task_queue))
    /\ LET t == Head(task_queue) IN
        /\ task_queue' = Tail(task_queue)
        /\ results' = Append(results, [url |-> t.url, res |-> t.st, nsent |-> t.i - 1])
        /\ IF t.st = "ok"
             THEN /\ n_pages_visited' = WrapAdd(n_pages_visited, 1)
                  /\ n_tasks_remaining' = WrapAdd(n_tasks_remaining, 1)
                  /\ UNCHANGED << n_pages_queued, pc, error >>
             ELSE /\ pc' = "error"
                  /\ error' = t.st
                  /\ UNCHANGED << n_pages_queued, n_pages_visited, n_tasks_remaining >>
    /\ UNCHANGED << site, max_tasks, max_pages, visited, inbox, spawned, via >>

\* Variant of Complete in which the URL of a failed task is taken out of
\* visited again.
CompleteForgetsFailed ==
    /\ pc = "loop"
    /\ task_queue # <<>>
    /\ Finished(Head(task_queue))
    /\ LET t == Head(task_queue) IN
        /\ task_queue' = Tail(task_queue)
        /\ results' = Append(results, [url |-> t.url, res |-> t.st, nsent |-> t.i - 1])
        /\ IF t.st = "ok"
             THEN /\ n_pages_visited' = WrapAdd(n_pages_visited, 1)
                  /\ n_tasks_remaining' = WrapAdd(n_tasks_remaining, 1)
                  /\ UNCHANGED << n_pages_queued, visited >>
             ELSE /\ n_pages_queued' = WrapSub(n_pages_queued, 1)
                  /\ visited' = visited \ {t.url}
                  /\ UNCHANGED << n_pages_visited, n_tasks_remaining >>
    /\ UNCHANGED << pc, site, max_tasks, max_pages, inbox, spawned, via, error >>

\* Variant of Complete over an unordered collection: the result of any
\* resolved task is consumed.
CompleteUnordered ==
    /\ pc = "loop"
    /\ \E k \in DOMAIN task_queue :
        /\ Finished(task_queue[k])
        /\ LET t == task_queue[k] IN
            /\ task_queue' = SubSeq(task_queue, 1, k - 1)
                                \o SubSeq(task_queue, k + 1, Len(task_queue))
            /\ results' = Append(results, [url |-> t.url, res |-> t.st, nsent |-> t.i - 1])
            /\ IF t.st = "ok"
                 THEN /\ n_pages_visited' = WrapAdd(n_pages_visited, 1)
                      /\ n_tasks_remaining' = WrapAdd(n_tasks_remaining, 1)
                      /\ UNCHANGED n_pages_queued
                 ELSE /\ n_pages_queued' = WrapSub(n_pages_queued, 1)
                      /\ UNCHANGED << n_pages_visited, n_tasks_remaining >>
    /\ UNCHANGED << pc, site, max_tasks, max_pages, visited, inbox, spawned,
                    via, error >>

\* First arm of select! (lines 76-88): the result of the task at the front of
\* task_queue (FuturesOrdered yields in push order) is consumed.
Complete ==
    /\ pc = "loop"
    /\ task_queue # <<>>
    /\ Finished(Head(task_queue))
    /\ LET t == Head(task_queue) IN
        /\ task_queue' = Tail(task_queue)
        /\ results' = Append(results, [url |-> t.url, res |-> t.st, nsent |-> t.i - 1])
        /\ IF t.st = "ok"
             THEN /\ n_pages_visited' = WrapAdd(n_pages_visited, 1)
                  /\ n_tasks_remaining' = WrapAdd(n_tasks_remaining, 1)
                  /\ UNCHANGED n_pages_queued
             ELSE /\ n_pages_queued' = WrapSub(n_pages_queued, 1)
                  /\ UNCHANGED << n_pages_visited, n_tasks_remaining >>
    /\ UNCHANGED << pc, site, max_tasks, max_pages, visited, inbox, spawned,
                    via, error >>

\* The first arm of select! is ready: the task at the front has resolved.
CompletionReady == task_queue # <<>> /\ Finished(Head(task_queue))

\* Variant of Receive for a biased select!: the arm is taken only when no
\* completion is ready.
ReceiveUnlessCompletion ==
    /\ pc = "loop"
    /\ AdmissionGuard
    /\ inbox # <<>>
    /\ ~CompletionReady
    /\ LET url == Head(inbox).url IN
        /\ inbox' = Tail(inbox)
        /\ IF NotVisited(url)
             THEN /\ visited' = visited \cup {url}
                  /\ QueueTask(url)
                  /\ n_tasks_remaining' = WrapSub(n_tasks_remaining, 1)
                  /\ n_pages_queued' = WrapAdd(n_pages_queued, 1)
                  /\ via' = Append(via, [src |-> Head(inbox).src,
                                         j |-> Head(inbox).j,
                                         tie |-> CompletionReady])
             ELSE UNCHANGED << visited, task_queue, spawned, via,
                               n_tasks_remaining, n_pages_queued >>
    /\ UNCHANGED << pc, site, max_tasks, max_pages, n_pages_visited, results,
                    error >>

\* Second arm of select! (lines 89-96): a discovery is taken from the channel
\* and admitted unless already visited.
Receive ==
    /\ pc = "loop"
    /\ AdmissionGuard
    /\ inbox # <<>>
    /\ LET url == Head(inbox).url IN
        /\ inbox' = Tail(inbox)
        /\ IF NotVisited(url)
             THEN /\ visited' = visited \cup {url}
                  /\ QueueTask(url)
                  /\ n_tasks_remaining' = WrapSub(n_tasks_remaining, 1)
                  /\ n_pages_queued' = WrapAdd(n_pages_queued, 1)
                  /\ via' = Append(via, [src |-> Head(inbox).src,
                                         j |-> Head(inbox).j,
                                         tie |-> CompletionReady])
             ELSE UNCHANGED << visited, task_queue, spawned, via,
                               n_tasks_remaining, n_pages_queued >>
    /\ UNCHANGED << pc, site, max_tasks, max_pages, n_pages_visited, results,
                    error >>

\* The channel yields None: every Sender is gone.  Each unfinished task and
\* each buffered message holds one.
ChannelClosed ==
    /\ inbox = <<>>
    /\ \A k \in 1 .. Len(task_queue) : Finished(task_queue[k])

\* Variant of Break that leaves the loop as soon as nothing can be admitted,
\* whatever is still in flight.
BreakLeavesTasks ==
    /\ pc = "loop"
    /\ ~AdmissionGuard \/ ChannelClosed
    /\ pc' = "done"
    /\ UNCHANGED << site, max_tasks, max_pages, visited, task_queue, inbox,
                    n_tasks_remaining, n_pages_queued, n_pages_visited,
                    spawned, results, via, error >>

\* else arm (line 97): both arms are disabled, the loop breaks and run
\* returns Ok(()).
Break ==
    /\ pc = "loop"
    /\ task_queue = <<>>
    /\ ~AdmissionGuard \/ ChannelClosed
    /\ pc' = "done"
    /\ UNCHANGED << site, max_tasks, max_pages, visited, task_queue, inbox,
                    n_tasks_remaining, n_pages_queued, n_pages_visited,
                    spawned, results, via, error >>

(***************************************************************************)
(* The fetch tasks (Scraper::visit), addressed by position in task_queue.  *)
(***************************************************************************)
SetTask(k, t) == task_queue' = [task_queue EXCEPT ![k] = t]

TaskFrame == UNCHANGED << pc, site, max_tasks, max_pages, visited,
                          n_tasks_remaining, n_pages_queued, n_pages_visited,
                          spawned, results, via, error >>

\* Line 175: the GET and the read of the body succeed, or visit returns Err.
TaskGet(k) ==
    /\ pc = "loop"
    /\ task_queue[k].st = "get"
    /\ \E ok \in BOOLEAN :
         SetTask(k, [task_queue[k] EXCEPT !.st = IF ok THEN "serialize" ELSE "reqwest"])
    /\ UNCHANGED inbox
    /\ TaskFrame

\* Lines 177-179: the page is written and scraped, or visit returns Err
\* before scraping, or the task panics, which its JoinHandle reports as a
\* JoinError.
TaskSerialize(k) ==
    /\ pc = "loop"
    /\ task_queue[k].st = "serialize"
    /\ \E out \in {"send", "io", "join"} :
         SetTask(k, [task_queue[k] EXCEPT !.st = out])
    /\ UNCHANGED inbox
    /\ TaskFrame

\* Variant of TaskSend in which a task whose page could not be stored sends
\* its links all the same.
TaskSendDespiteStoreError(k) ==
    /\ pc = "loop"
    /\ task_queue[k].st \in {"send", "io"}
    /\ task_queue[k].i <= Len(Links(task_queue[k].url))
    /\ Len(inbox) < InboxCap
    /\ inbox' = Append(inbox, [url |-> Links(task_queue[k].url)[task_queue[k].i],
                               src |-> task_queue[k].url,
                               j |-> task_queue[k].i])
    /\ SetTask(k, [task_queue[k] EXCEPT !.i = @ + 1])
    /\ TaskFrame

\* Variant of TaskSend over a channel that hands out the newest message
\* first.
TaskSendPrepends(k) ==
    /\ pc = "loop"
    /\ task_queue[k].st = "send"
    /\ task_queue[k].i <= Len(Links(task_queue[k].url))
    /\ Len(inbox) < InboxCap
    /\ inbox' = << [url |-> Links(task_queue[k].url)[task_queue[k].i],
                    src |-> task_queue[k].url,
                    j |-> task_queue[k].i] >> \o inbox
    /\ SetTask(k, [task_queue[k] EXCEPT !.i = @ + 1])
    /\ TaskFrame

\* Lines 179-182: the next link is sent; send waits while the channel is full.
TaskSend(k) ==
    /\ pc = "loop"
    /\ task_queue[k].st = "send"
    /\ task_queue[k].i <= Len(Links(task_queue[k].url))
    /\ Len(inbox) < InboxCap
    /\ inbox' = Append(inbox, [url |-> Links(task_queue[k].url)[task_queue[k].i],
                               src |-> task_queue[k].url,
                               j |-> task_queue[k].i])
    /\ SetTask(k, [task_queue[k] EXCEPT !.i = @ + 1])
    /\ TaskFrame

\* Line 183: every link was sent, visit returns Ok(()).
TaskReturn(k) ==
    /\ pc = "loop"
    /\ task_queue[k].st = "send"
    /\ task_queue[k].i > Len(Links(task_queue[k].url))
    /\ SetTask(k, [task_queue[k] EXCEPT !.st = "ok"])
    /\ UNCHANGED inbox
    /\ TaskFrame

TaskStep ==
    \E k \in 1 .. Len(task_queue) :
        \/ TaskGet(k)
        \/ TaskSerialize(k)
        \/ TaskSend(k)
        \/ TaskReturn(k)

Next ==
    \/ New
    \/ Setup
    \/ Start
    \/ Complete
    \/ Receive
    \/ Break
    \/ TaskStep

Spec == Init /\ [][Next]_vars

(***************************************************************************)
(* Notions used to state the properties.                                   *)
(***************************************************************************)
\* The URLs a page links to.
Succ(u) == {Links(u)[j] : j \in DOMAIN Links(u)}

RECURSIVE Closure(_)
Closure(S) ==
    LET T == S \cup UNION {Succ(u) : u \in S}
    IN  IF T = S THEN S ELSE Closure(T)

\* The URLs reachable from the root.
Reachable == Closure({RootUrl})

\* No reachable page reaches itself.
CycleFree == \A u \in Reachable : u \notin Closure(Succ(u))

\* The consumed results that were failures.
FailedResults == {k \in DOMAIN results : results[k].res # "ok"}

NFailed == Cardinality(FailedResults)

\* The tasks in flight: spawned, result not yet consumed.
InFlight == Len(task_queue)

NoDuplicates(seq) ==
    \A a, b \in DOMAIN seq : a # b => seq[a] # seq[b]

\* Task k has sent link u already.
HasSent(k, u) ==
    \E j \in 1 .. (task_queue[k].i - 1) : Links(task_queue[k].url)[j] = u

Terminated == pc \in {"done", "error", "panicked"}

(***************************************************************************)
(* C1.                                                                     *)
(***************************************************************************)
\* C1 (as claimed): with max_pages >= 1 the number of URLs ever admitted
\* (queue_task calls, root included) never exceeds max_pages.
C1_AdmittedNeverExceedsMaxPages ==
    (max_pages >= 1 /\ max_tasks >= 1) => Len(spawned) <= max_pages

\* C1 (amended): the number of URLs ever admitted never exceeds max_pages
\* plus the number of failed tasks the scheduler has consumed: each consumed
\* failure gives one unit of page budget back.
C1_AdmittedBoundedByCeilingPlusFailures ==
    (max_pages >= 1 /\ max_tasks >= 1) => Len(spawned) <= max_pages + NFailed

\* A failure has been consumed and the admissions have gone past max_pages.
C1_Witness ==
    /\ max_tasks >= 1
    /\ NFailed >= 1
    /\ Len(spawned) = max_pages + NFailed

(***************************************************************************)
(* C2.                                                                     *)
(***************************************************************************)
\* C2: no URL is passed to queue_task more than once in a run.
C2_NoUrlAdmittedTwice == NoDuplicates(spawned)

\* Two tasks running at the same time have both sent the same URL; it was
\* admitted once and its second copy is still in the channel.
C2_Witness ==
    \E k1, k2 \in DOMAIN task_queue : \E u \in URLs :
        /\ max_tasks >= 1
        /\ k1 # k2
        /\ HasSent(k1, u) /\ HasSent(k2, u)
        /\ ~Finished(task_queue[k1]) /\ ~Finished(task_queue[k2])
        /\ \E a \in DOMAIN spawned : spawned[a] = u
        /\ \E m \in DOMAIN inbox : inbox[m].url = u

(***************************************************************************)
(* C3.                                                                     *)
(***************************************************************************)
\* C3: with max_tasks >= 1 the number of tasks in flight is at most
\* max_tasks in every reachable state.
C3_InFlightAtMostMaxTasks ==
    max_tasks >= 1 => InFlight <= max_tasks

\* Every slot is taken while an unvisited discovery waits and page budget
\* remains.
C3_Witness ==
    /\ max_tasks >= 2
    /\ InFlight = max_tasks
    /\ n_pages_queued < max_pages
    /\ inbox # <<>>
    /\ Head(inbox).url \notin visited

(***************************************************************************)
(* C4.                                                                     *)
(***************************************************************************)
\* C4: when the run has ended, for every fetched page that yielded two
\* links A and B: if the fetch of A failed and page budget remains, B was
\* admitted.
C4_SiblingAdmittedDespiteFailure ==
    (pc = "done" /\ max_tasks >= 1) =>
        \A p \in DOMAIN results : \A a, b \in Succ(results[p].url) :
            ( /\ results[p].res = "ok"
              /\ a # b
              /\ \E f \in DOMAIN results :
                    results[f].url = a /\ results[f].res = "reqwest"
              /\ n_pages_queued < max_pages )
            => b \in visited

(***************************************************************************)
(* C5.                                                                     *)
(***************************************************************************)
\* No task has failed so far.
AllFetchesSucceeded ==
    /\ NFailed = 0
    /\ \A k \in DOMAIN task_queue : task_queue[k].st \notin {"reqwest", "io", "join"}

\* C5: with max_tasks >= 1, max_pages at least the number of reachable
\* pages and all fetches succeeding, the run does not get stuck, and when
\* it has ended the pages fetched are exactly the reachable ones, each once.
C5_TerminatesHavingFetchedReachable ==
    ( /\ max_tasks >= 1
      /\ max_pages >= Cardinality(Reachable)
      /\ AllFetchesSucceeded
      /\ pc # "error" )
    => \/ /\ pc = "done"
          /\ {results[k].url : k \in DOMAIN results} = Reachable
          /\ NoDuplicates(spawned)
          /\ n_pages_visited = Cardinality(Reachable)
       \/ ENABLED Next

(***************************************************************************)
(* C6.                                                                     *)
(***************************************************************************)
\* C6, in the case max_tasks = 1: when the run has ended and the root,
\* fetched, has more distinct outbound links than max_pages - 1, exactly
\* max_pages pages were admitted.
C6_ExactlyMaxPagesAdmitted ==
    ( /\ pc = "done"
      /\ max_tasks = 1
      /\ results[1].res = "ok"
      /\ Cardinality(Succ(RootUrl) \ {RootUrl}) > max_pages - 1 )
    => Len(spawned) = max_pages

(***************************************************************************)
(* C7.                                                                     *)
(***************************************************************************)
\* C7: with max_tasks >= 1 the run is never stuck: until it has ended some
\* step of the scheduler or of a task is possible.  (No step of the model
\* leads back to an earlier state, so this is termination under fairness.)
C7_RunNeverStuck ==
    max_tasks >= 1 => (Terminated \/ ENABLED Next)

C9_StoreFailureStillDiscovers ==
    \A k \in DOMAIN results :
        (max_tasks >= 1 /\ results[k].res = "io") => results[k].nsent = Len(Links(results[k].url))

\* C9 (amended): a storage failure does not abort the run, but the page
\* sends none of its links: visit returns the error before scraping.
C9_StoreFailureSendsNothing ==
    /\ \A k \in DOMAIN task_queue :
          task_queue[k].st = "io" =>
              /\ task_queue[k].i = 1
              /\ \A m \in DOMAIN inbox : inbox[m].src # task_queue[k].url
    /\ \A k \in DOMAIN results :
          results[k].res = "io" =>
              /\ results[k].nsent = 0
              /\ \A m \in DOMAIN inbox : inbox[m].src # results[k].url
              /\ pc \in {"loop", "done"}

\* A page with links could not be stored, and the scheduler went on to
\* consume a later task's success.
C9_Witness ==
    \E k, j \in DOMAIN results :
        /\ max_tasks >= 1
        /\ k < j
        /\ results[k].res = "io"
        /\ Links(results[k].url) # <<>>
        /\ results[j].res = "ok"

(***************************************************************************)
(* C10.                                                                    *)
(***************************************************************************)
\* C10: run(0, max_pages) either ends with an error before any fetch, or
\* goes on with never more than one task in flight.
C10_ZeroTasksRejectedOrClamped ==
    max_tasks = 0 =>
        \/ pc = "error" /\ spawned = <<>>
        \/ pc \notin {"error", "panicked"} /\ InFlight <= 1

(***************************************************************************)
(* Further notions.                                                        *)
(***************************************************************************)
\* The URLs for which a task was spawned.
Admitted == {spawned[a] : a \in DOMAIN spawned}

\* The consumed results that were successes.
NOk == Len(results) - NFailed

\* The number of links the task of page p has sent so far.
Sent(p) ==
    IF \E k \in DOMAIN task_queue : task_queue[k].url = p
      THEN (CHOOSE t \in {task_queue[k] : k \in DOMAIN task_queue} : t.url = p).i - 1
      ELSE IF \E k \in DOMAIN results : results[k].url = p
             THEN (CHOOSE r \in {results[k] : k \in DOMAIN results} : r.url = p).nsent
             ELSE 0

RECURSIVE SumSent(_)
SumSent(S) ==
    IF S = {} THEN 0
    ELSE LET p == CHOOSE q \in S : TRUE IN Sent(p) + SumSent(S \ {p})

\* The number of messages sent by all tasks so far.
TotalSent == SumSent(URLs)

\* The buffered messages that page p sent.
FromPage(p) == LET IsFrom(m) == m.src = p IN SelectSeq(inbox, IsFrom)

\* Both arms of select! are ready.
BothReady ==
    /\ pc = "loop"
    /\ CompletionReady
    /\ AdmissionGuard
    /\ inbox # <<>>

C12_OnlyRootUrlOrTransportFatal ==
    (max_tasks >= 1 /\ pc = "error") => error \in {"UrlParse", "NoUrlHost", "UrlSend"}

\* C12 (amended): the crawl returns an error only before the loop starts:
\* for a root URL that does not parse or has no host, and for a storage
\* directory that cannot be created; no task was spawned then, and once a
\* task is spawned no error is returned.
C12_ErrorsOnlyBeforeLoop ==
    /\ pc = "error" => (error \in {"UrlParse", "NoUrlHost", "Io"} /\ spawned = <<>>)
    /\ pc # "error" => error = "none"

\* run returned the error of Storage::setup.
C12_Witness == pc = "error" /\ error = "Io" /\ spawned = <<>>

(***************************************************************************)
(* C13.                                                                    *)
(***************************************************************************)
\* C13 (as claimed): in a step taken when both a completed result and an
\* eligible discovery are ready, no message is taken from the channel.
C13_CompletionPreferred ==
    [][(max_tasks >= 1 /\ BothReady) => Len(inbox') >= Len(inbox)]_vars

\* C13 (amended): when both are ready the scheduler may handle either: the
\* completion arm and the admission arm can both be taken.
C13_EitherArmWhenBothReady ==
    BothReady => (ENABLED Complete /\ ENABLED Receive)

\* A URL was admitted while a completed result was waiting.
C13_Witness ==
    /\ max_tasks >= 1
    /\ \E a \in DOMAIN via : via[a].tie

(***************************************************************************)
(* C14.                                                                    *)
(***************************************************************************)
\* C14: in the loop and after it, max_tasks - n_tasks_remaining is the
\* number of tasks whose result has not been consumed.
C14_SlotsMatchTasksInFlight ==
    (pc \in {"loop", "done"} /\ max_tasks >= 1)
    => max_tasks - n_tasks_remaining = Len(task_queue)

(***************************************************************************)
(* C15.                                                                    *)
(***************************************************************************)
\* C15: when the loop has exited, it is not the case that fewer than
\* max_pages pages were admitted while the channel still holds a URL that
\* was never visited.
C15_ExitOnlyWhenNothingAdmissible ==
    (pc = "done" /\ max_tasks >= 1)
    => ~ ( /\ Len(spawned) < max_pages
           /\ \E m \in DOMAIN inbox : inbox[m].url \notin visited )

(***************************************************************************)
(* C16.                                                                    *)
(***************************************************************************)
\* C16: when run has returned Ok, task_queue is empty and the result of
\* every spawned task was consumed.
C16_NoTaskInFlightAtExit ==
    pc = "done" => (task_queue = <<>> /\ Len(results) = Len(spawned))

\* The run has ended with the page ceiling reached and discoveries left in
\* the channel, after several tasks.
C16_Witness ==
    /\ pc = "done"
    /\ max_tasks >= 1
    /\ n_pages_queued = max_pages
    /\ Len(spawned) >= 3
    /\ inbox # <<>>

(***************************************************************************)
(* C17.                                                                    *)
(***************************************************************************)
\* C17: in every step visited only grows and stays the set of URLs for
\* which a task was spawned; a message is taken only under the admission
\* guard, and its URL is either visited already, and then nothing else
\* changes, or it is inserted, one task is spawned and both counters are
\* updated; a consumed completion leaves visited unchanged.
C17_VisitedWrittenOnlyAtAdmission ==
    [][ /\ visited \subseteq visited'
        /\ visited' = {spawned'[a] : a \in DOMAIN spawned'}
        /\ visited' # visited => Len(spawned') = Len(spawned) + 1
        /\ Len(results') > Len(results) => visited' = visited
        /\ Len(inbox') < Len(inbox) =>
             /\ AdmissionGuard
             /\ inbox' = Tail(inbox)
             /\ IF Head(inbox).url \in visited
                  THEN UNCHANGED << visited, task_queue, spawned, results, pc,
                                    n_tasks_remaining, n_pages_queued,
                                    n_pages_visited >>
                  ELSE /\ visited' = visited \cup {Head(inbox).url}
                       /\ task_queue' = Append(task_queue, NewTask(Head(inbox).url))
                       /\ spawned' = Append(spawned, Head(inbox).url)
                       /\ n_tasks_remaining' = n_tasks_remaining - 1
                       /\ n_pages_queued' = n_pages_queued + 1
      ]_vars

\* Some received message was discarded as visited already (more messages
\* were taken than URLs admitted), and a failed task was consumed.
C17_Witness ==
    /\ max_tasks >= 1
    /\ visited = Admitted
    /\ NFailed >= 1
    /\ TotalSent - Len(inbox) > Len(spawned) - 1

(***************************************************************************)
(* C18.                                                                    *)
(***************************************************************************)
\* Where URL u stands in the order of admission.
AdmissionIndex(u) == CHOOSE a \in DOMAIN spawned : spawned[a] = u

\* C18 (as claimed): if a page has sent u before v, neither being the root,
\* and both are admitted, u was admitted before v.
C18_AdmittedInLinkOrder ==
    max_tasks >= 1 =>
    \A p \in URLs : \A j1, j2 \in 1 .. Sent(p) :
        LET u == Links(p)[j1]
            v == Links(p)[j2]
        IN  ( /\ j1 < j2 /\ u # v
              /\ u # RootUrl /\ v # RootUrl
              /\ u \in Admitted /\ v \in Admitted )
            => AdmissionIndex(u) < AdmissionIndex(v)

\* C18 (amended): the messages of one page are buffered in link order,
\* none lost and none duplicated (those in the channel are the last ones
\* the page sent, in order, each carrying the link of its position), and
\* of two URLs admitted through messages of the same page the one sent
\* first was admitted first.
C18_DeliveredInLinkOrder ==
    /\ \A p \in URLs :
          LET ms == FromPage(p) IN
          \A x \in DOMAIN ms :
              /\ ms[x].j = Sent(p) - Len(ms) + x
              /\ ms[x].url = Links(p)[ms[x].j]
    /\ \A a \in DOMAIN via :
          via[a].src # 0 =>
              /\ spawned[a] = Links(via[a].src)[via[a].j]
              /\ via[a].j <= Sent(via[a].src) - Len(FromPage(via[a].src))
    /\ \A a, b \in DOMAIN via :
          (a < b /\ via[a].src # 0 /\ via[a].src = via[b].src)
          => via[a].j < via[b].j

\* Two URLs were admitted through messages of one page while a later
\* message of that page is still buffered.
C18_Witness ==
    /\ max_tasks >= 1
    /\ \E a, b \in DOMAIN via :
          /\ a < b
          /\ via[a].src # 0
          /\ via[a].src = via[b].src
          /\ FromPage(via[a].src) # <<>>

(***************************************************************************)
(* C19.                                                                    *)
(***************************************************************************)
\* C19: in the loop and after it n_pages_queued is the number of consumed
\* successes plus the number of tasks not yet consumed, and is at most
\* max_pages; n_pages_visited is the number of consumed successes, at most
\* max_pages.
C19_QueuedIsVisitedPlusInFlight ==
    pc \in {"loop", "done"} =>
        /\ n_pages_queued = NOk + Len(task_queue)
        /\ n_pages_queued <= max_pages
        /\ n_pages_visited = NOk
        /\ n_pages_visited <= max_pages

\* After a failure gave budget back, the run ended with max_pages pages
\* visited.
C19_Witness ==
    /\ pc = "done"
    /\ max_tasks >= 1
    /\ NFailed >= 1
    /\ max_pages >= 2
    /\ n_pages_visited = max_pages

(***************************************************************************)
(* C20.                                                                    *)
(***************************************************************************)
\* C20: the results consumed so far are those of the first tasks admitted,
\* in admission order, and task_queue holds the remaining ones in that
\* order: no result is handled before those of all earlier admissions.
C20_ResultsInAdmissionOrder ==
    /\ Len(results) + Len(task_queue) = Len(spawned)
    /\ \A k \in DOMAIN results : results[k].url = spawned[k]
    /\ \A k \in DOMAIN task_queue : task_queue[k].url = spawned[Len(results) + k]

\* A task has returned Ok behind a task still running; its slot is not
\* free, and an unvisited discovery waits for a slot with page budget left.
C20_Witness ==
    /\ pc = "loop"
    /\ max_tasks >= 1
    /\ \E k \in DOMAIN task_queue : k > 1 /\ task_queue[k].st = "ok"
    /\ ~Finished(Head(task_queue))
    /\ n_tasks_remaining = 0
    /\ n_pages_queued < max_pages
    /\ inbox # <<>>
    /\ Head(inbox).url \notin visited

=============================================================================
